---- MODULE Spec2Model ----
(***************************************************************************)
(* gkraken: the presenter's status poll pipeline, the fan-duty override of *)
(* _update_status, and the apply path that sends a speed profile to the    *)
(* device and records it as the CurrentSpeedProfile of its channel.        *)
(*                                                                         *)
(* Threads.  Handlers of the view (clicks, selections, on_start) and every *)
(* callback placed after observe_on(GtkScheduler()) run on the GUI loop,   *)
(* one at a time: each is one action.  Work placed before observe_on runs  *)
(* on a worker of the ThreadPoolScheduler: a device call is in progress    *)
(* from the action that starts it to the action that ends it.              *)
(*                                                                         *)
(* Temperatures are integers: the code only compares the measured liquid   *)
(* temperature with the step temperatures.                                 *)
(***************************************************************************)
EXTENDS Integers, Sequences, FiniteSets, TLC

(* ------------------------------ bounds -------------------------------- *)

\* Greatest temperature of a step and of a measurement (measurements start at 0).
MaxTemp == 2
\* Greatest number of steps of a profile.
MaxSteps == 2
\* Apply requests that may be waiting for or holding a worker at once.
MaxPool == 2
\* Callbacks that may be waiting for the GUI loop at once.
MaxQueue == 2
\* Events of the environment, the user's actions and the ticks of the refresh
\* interval, in one run with user actions.
MaxEvents == 3

(* ----------------------- program constants ---------------------------- *)

\* multiprocessing.cpu_count(): the workers of the ThreadPoolScheduler.
cpu_count == 3

(* ------------------------------ values -------------------------------- *)

FAN == "fan"
PUMP == "pump"
ChannelType == {FAN, PUMP}

\* The SpeedProfile rows.  Id 0 stands for "no profile" (None).
ProfileIds == {1, 2, 3}
NoProfile == 0

\* SpeedProfile.channel
profile_channel(p) == IF p = 3 THEN PUMP ELSE FAN

\* SpeedProfile.single_step
profile_single_step(p) == p \in {2, 3}

StepTemps == 1..MaxTemp
LiquidTemps == 0..MaxTemp
DutyValues == {30, 60}
\* fan_speed as the device reports it.
ReportedFanSpeeds == {50}

SpeedStep == [temperature : StepTemps, duty : DutyValues]

\* Step tables of one to MaxSteps steps, strictly ascending by temperature.
SortedTables ==
    { s \in UNION { [1..n -> SpeedStep] : n \in 1..MaxSteps } :
        \A i \in 1..(Len(s) - 1) : s[i].temperature < s[i + 1].temperature }

\* The absent step table (no profile), distinct from every table of a profile.
NoTable == << >>

\* Status, and the None that the error handler's Observable.just(None) emits.
Status == [liquid_temperature : LiquidTemps, fan_speed : ReportedFanSpeeds]
NoStatus == [liquid_temperature |-> -1, fan_speed |-> -1]

VARIABLES
    started,                    \* on_start has run
    settings_load_last_profile, \* the 'settings_load_last_profile' setting
    steps,                      \* SpeedStep rows: profile id -> its steps in order
    current_speed_profile,      \* CurrentSpeedProfile rows, in creation order
    profile_selected,           \* Presenter._profile_selected
    should_update_fan_speed,    \* Presenter._should_update_fan_speed
    apply_button_enabled,       \* view: apply and edit button of each channel
    pool,                       \* apply requests submitted to the thread pool
    pollPc,                     \* the refresh subscription
    gtkQueue,                   \* callbacks scheduled on the GtkScheduler
    device_steps,               \* device: step data last received per channel
    statusbar,                  \* view: text of the status bar and its caller
    lastPub,                    \* view: the last refresh_status call
    applied_log,                \* profiles of the last two completed applies per channel
    events                      \* user actions and ticks so far, where they are counted

vars == << started, settings_load_last_profile, steps, current_speed_profile,
           profile_selected, should_update_fan_speed, apply_button_enabled,
           pool, pollPc, gtkQueue, device_steps, statusbar, lastPub, applied_log >>

(* ------------------------- the ORM's queries -------------------------- *)

RECURSIVE SelectRows(_, _)
\* The rows of CurrentSpeedProfile of a channel, in order.
SelectRows(rows, channel) ==
    IF rows = << >> THEN << >>
    ELSE IF Head(rows).channel = channel
         THEN << Head(rows) >> \o SelectRows(Tail(rows), channel)
         ELSE SelectRows(Tail(rows), channel)

\* CurrentSpeedProfile.get_or_none(channel=...): the profile of the first row of
\* the channel, NoProfile for None.
get_or_none(rows, channel) ==
    IF SelectRows(rows, channel) = << >> THEN NoProfile
    ELSE SelectRows(rows, channel)[1].profile

\* _get_profile_data: the (temperature, duty) pairs of the profile's steps.
get_profile_data(p) == steps[p]

(* --------------------- the fan-duty override -------------------------- *)

RECURSIVE duties_of(_, _)
\* [i.duty for i in last_applied.profile.steps
\*         if status.liquid_temperature >= i.temperature]
duties_of(table, liquid_temperature) ==
    IF table = << >> THEN << >>
    ELSE IF liquid_temperature >= Head(table).temperature
         THEN << Head(table).duty >> \o duties_of(Tail(table), liquid_temperature)
         ELSE duties_of(Tail(table), liquid_temperature)

\* A slip: the first matching duty instead of the last.
pick_duty_first(duties) == duties[1]

\* duties[-1]
pick_duty(duties) == duties[Len(duties)]

\* The body of _update_status above its call of the view: the status that is
\* handed to refresh_status, given the flag, the CurrentSpeedProfile rows and the
\* SpeedStep rows as they are when the callback runs.
update_status(status, should_update, rows, tables) ==
    IF should_update
    THEN LET last_applied == get_or_none(rows, FAN) IN
         IF last_applied # NoProfile
         THEN LET duties == duties_of(tables[last_applied], status.liquid_temperature) IN
              IF duties # << >>
              THEN [status EXCEPT !.fan_speed = pick_duty(duties)]
              ELSE status
         ELSE status
    ELSE status

(* ------------------- the CurrentSpeedProfile upsert ------------------- *)

RECURSIVE SaveFirst(_, _, _)
\* current.profile = profile; current.save(), current being the first row of
\* the channel.
SaveFirst(rows, channel, p) ==
    IF rows = << >> THEN << >>
    ELSE IF Head(rows).channel = channel
         THEN << [channel |-> channel, profile |-> p] >> \o Tail(rows)
         ELSE << Head(rows) >> \o SaveFirst(Tail(rows), channel, p)

\* A slip: a row is created whether or not the channel has one.
update_current_always_create(rows, p) ==
    Append(rows, [channel |-> profile_channel(p), profile |-> p])

\* The rows after _update_current_speed_profile(profile).
update_current_speed_profile(rows, p) ==
    IF get_or_none(rows, profile_channel(p)) = NoProfile
    THEN Append(rows, [channel |-> profile_channel(p), profile |-> p])
    ELSE SaveFirst(rows, profile_channel(p), p)

(* ------------------------- status bar texts --------------------------- *)

ErrorApplyingText(channel) ==
    IF channel = FAN THEN "Error applying fan speed profile!"
    ELSE "Error applying pump speed profile!"

AppliedText(channel) ==
    IF channel = FAN THEN "Fan cooling profile applied"
    ELSE "Pump cooling profile applied"

\* str(ex) of the exception a failed status fetch raised.
FetchErrorText == "str(ex)"

GUI == "gui"
WORKER == "worker"

\* _ADD_NEW_PROFILE_INDEX
ADD_NEW_PROFILE_INDEX == -10

(* ------------------------------- Init --------------------------------- *)

\* The CurrentSpeedProfile tables a previous run can have left: at most one row
\* per channel, of a profile of that channel.
StoredRows ==
    { f \o p : f \in { << >> } \cup { << [channel |-> FAN, profile |-> q] >> :
                                       q \in { r \in ProfileIds : profile_channel(r) = FAN } },
               p \in { << >> } \cup { << [channel |-> PUMP, profile |-> q] >> :
                                       q \in { r \in ProfileIds : profile_channel(r) = PUMP } } }

\* The state after Presenter.__init__, over the given SpeedStep tables.
InitOver(tables) ==
    /\ started = FALSE
    /\ settings_load_last_profile \in BOOLEAN
    /\ steps \in tables
    /\ current_speed_profile \in StoredRows
    /\ profile_selected = [c \in ChannelType |-> NoProfile]
    /\ should_update_fan_speed = FALSE
    /\ apply_button_enabled = [c \in ChannelType |-> FALSE]
    /\ pool = << >>
    /\ pollPc = "unsubscribed"
    /\ gtkQueue = << >>
    /\ device_steps = [c \in ChannelType |->
                         IF get_or_none(current_speed_profile, c) = NoProfile THEN NoTable
                         ELSE steps[get_or_none(current_speed_profile, c)]]
    /\ statusbar = [text |-> "", thread |-> GUI]
    /\ lastPub = NoStatus
    /\ applied_log = [c \in ChannelType |-> << >>]

\* One two-step fan profile and a fixed-speed profile for each channel.
DefaultTables ==
    { [p \in ProfileIds |->
         IF p = 1 THEN << [temperature |-> 1, duty |-> 30], [temperature |-> 2, duty |-> 60] >>
         ELSE << [temperature |-> 1, duty |-> 30] >>] }

\* Every sorted table, of one step too, for the fan profile 1.
AllTables ==
    { [p \in ProfileIds |-> IF p = 1 THEN t1 ELSE << [temperature |-> 1, duty |-> 30] >>] :
        t1 \in SortedTables }

Init == InitOver(DefaultTables) /\ events = 0

InitResolve == InitOver(AllTables) /\ events = 0

(* ---------------------------- thread pool ----------------------------- *)

RemoveAt(seq, i) == SubSeq(seq, 1, i - 1) \o SubSeq(seq, i + 1, Len(seq))

\* Workers that are running a task: the apply requests whose send is in progress,
\* and the refresh subscription, whose periodic loop keeps its worker.
Running ==
    Cardinality({ i \in 1..Len(pool) : pool[i].st = "sending" })
    + (IF pollPc \in {"fetching", "waiting"} THEN 1 ELSE 0)

\* Tasks submitted before pool[i] that no worker has reached its device call for:
\* the executor hands tasks out in submission order.
QueuedAhead(i) ==
    Cardinality({ j \in 1..(i - 1) : pool[j].st = "queued" })
    + (IF pollPc = "queued" /\ pool[i].origin = "click" THEN 1 ELSE 0)

(* ------------------------ the device connection ----------------------- *)

\* Device calls in progress: sends of apply requests and the status fetch.
DeviceOps ==
    Cardinality({ i \in 1..Len(pool) : pool[i].st = "sending" })
    + (IF pollPc = "fetching" THEN 1 ELSE 0)

\* A device access that lets every call in at once.
DeviceUnserialized == TRUE

\* KrakenRepository, which holds the connection, is not among the source files
\* modelled here; its access discipline is taken from the specification's
\* concurrency section: the calls made on the connection are serialized, a call
\* goes in when no other is in progress.
DeviceFree == DeviceOps = 0

(* --------------------------- GUI handlers ----------------------------- *)

\* The request _set_speed_profile(profile) submits: the interactor is given the
\* channel and the step data as they are at the call; subscribe_on puts the
\* device send on the pool.
ApplyRequest(p, origin) ==
    [profile |-> p, channel |-> profile_channel(p), data |-> get_profile_data(p),
     st |-> "queued", origin |-> origin]

\* _init_speed_profiles: the requests for the persisted profiles, FAN then PUMP.
RestoreRequests ==
    LET req(c) == IF get_or_none(current_speed_profile, c) = NoProfile THEN << >>
                  ELSE << ApplyRequest(get_or_none(current_speed_profile, c), "restore") >>
    IN  IF settings_load_last_profile THEN req(FAN) \o req(PUMP) ELSE << >>

\* on_start: _init_speed_profiles, _init_settings, _start_refresh.
OnStart ==
    /\ ~started
    /\ started' = TRUE
    /\ should_update_fan_speed' = settings_load_last_profile
    /\ pool' = pool \o RestoreRequests
    /\ pollPc' = "queued"
    /\ UNCHANGED << settings_load_last_profile, steps, current_speed_profile,
                    profile_selected, apply_button_enabled, gtkQueue,
                    device_steps, statusbar, lastPub, applied_log >>

\* on_fan_profile_selected, on_pump_profile_selected: _select_speed_profile.
SelectSpeedProfile(profile_id, channel) ==
    /\ started
    /\ IF profile_id = ADD_NEW_PROFILE_INDEX
       THEN /\ apply_button_enabled' = [apply_button_enabled EXCEPT ![channel] = FALSE]
            /\ UNCHANGED profile_selected
       ELSE /\ profile_channel(profile_id) = channel
            /\ profile_selected' =
                   [profile_selected EXCEPT ![profile_channel(profile_id)] = profile_id]
            /\ apply_button_enabled' = [apply_button_enabled EXCEPT ![channel] = TRUE]
    /\ UNCHANGED << started, settings_load_last_profile, steps, current_speed_profile,
                    should_update_fan_speed, pool, pollPc, gtkQueue,
                    device_steps, statusbar, lastPub, applied_log >>

\* The edit button of the channel can be clicked and _on_edit_button_clicked
\* shows the fixed-speed popover: the selected profile is single_step.  Showing
\* the popover changes nothing of the presenter.
PopoverShown(channel) ==
    /\ started
    /\ apply_button_enabled[channel]
    /\ profile_selected[channel] # NoProfile
    /\ profile_single_step(profile_selected[channel])

\* on_fixed_speed_apply_button_clicked, with the value and the channel the
\* popover returns: the duty of the first step is saved.
OnFixedSpeedApply(value, channel) ==
    /\ PopoverShown(channel)
    /\ steps' = [steps EXCEPT ![profile_selected[channel]][1].duty = value]
    /\ should_update_fan_speed' = IF channel = FAN THEN FALSE ELSE should_update_fan_speed
    /\ UNCHANGED << started, settings_load_last_profile, current_speed_profile,
                    profile_selected, apply_button_enabled, pool, pollPc, gtkQueue,
                    device_steps, statusbar, lastPub, applied_log >>

\* on_fan_apply_button_clicked, on_pump_apply_button_clicked.
OnApplyButtonClicked(channel) ==
    /\ started
    /\ apply_button_enabled[channel]
    /\ profile_selected[channel] # NoProfile
    /\ Len(pool) < MaxPool
    /\ pool' = Append(pool, ApplyRequest(profile_selected[channel], "click"))
    /\ should_update_fan_speed' = IF channel = FAN THEN TRUE ELSE should_update_fan_speed
    /\ UNCHANGED << started, settings_load_last_profile, steps, current_speed_profile,
                    profile_selected, apply_button_enabled, pollPc, gtkQueue,
                    device_steps, statusbar, lastPub, applied_log >>

(* ------------------------- pool: apply requests ----------------------- *)

\* A worker calls the device with the request's channel and data, once the
\* device access lets the call in.
SendStart(i) ==
    /\ pool[i].st = "queued"
    /\ Running + QueuedAhead(i) < cpu_count
    /\ DeviceFree
    /\ pool' = [pool EXCEPT ![i].st = "sending"]
    /\ UNCHANGED << started, settings_load_last_profile, steps, current_speed_profile,
                    profile_selected, should_update_fan_speed, apply_button_enabled,
                    pollPc, gtkQueue, device_steps, statusbar, lastPub,
                    applied_log >>

\* The send returns: on_next is scheduled on the GUI loop.
SendOk(i) ==
    /\ pool[i].st = "sending"
    /\ Len(gtkQueue) < MaxQueue
    /\ device_steps' = [device_steps EXCEPT ![pool[i].channel] = pool[i].data]
    /\ gtkQueue' = Append(gtkQueue, [kind |-> "apply_ok", profile |-> pool[i].profile,
                                     status |-> NoStatus])
    /\ pool' = RemoveAt(pool, i)
    /\ UNCHANGED << started, settings_load_last_profile, steps, current_speed_profile,
                    profile_selected, should_update_fan_speed, apply_button_enabled,
                    pollPc, statusbar, lastPub, applied_log >>

\* The send raises: on_error is scheduled on the GUI loop.
SendError(i) ==
    /\ pool[i].st = "sending"
    /\ Len(gtkQueue) < MaxQueue
    /\ gtkQueue' = Append(gtkQueue, [kind |-> "apply_err", profile |-> pool[i].profile,
                                     status |-> NoStatus])
    /\ pool' = RemoveAt(pool, i)
    /\ UNCHANGED << started, settings_load_last_profile, steps, current_speed_profile,
                    profile_selected, should_update_fan_speed, apply_button_enabled,
                    pollPc, device_steps, statusbar, lastPub, applied_log >>

(* ----------------------- pool: the status refresh --------------------- *)

\* The subscription made by subscribe_on(self._scheduler) starts on a worker:
\* start_with(0) is emitted and flat_map calls _get_status for it.
PollSubscribe ==
    /\ pollPc = "queued"
    /\ Running + Cardinality({ j \in 1..Len(pool) :
                                 pool[j].st = "queued" /\ pool[j].origin = "restore" })
         < cpu_count
    /\ DeviceFree
    /\ pollPc' = "fetching"
    /\ UNCHANGED << started, settings_load_last_profile, steps, current_speed_profile,
                    profile_selected, should_update_fan_speed, apply_button_enabled,
                    pool, gtkQueue, device_steps, statusbar, lastPub,
                    applied_log >>

\* The interval fires: flat_map calls _get_status, whose deferred get_status()
\* runs on the interval's worker, once the device access lets the call in.
Tick ==
    /\ pollPc = "waiting"
    /\ DeviceFree
    /\ pollPc' = "fetching"
    /\ UNCHANGED << started, settings_load_last_profile, steps, current_speed_profile,
                    profile_selected, should_update_fan_speed, apply_button_enabled,
                    pool, gtkQueue, device_steps, statusbar, lastPub,
                    applied_log >>

\* get_status() returns a status: observe_on schedules on_next on the GUI loop.
FetchOk(status) ==
    /\ pollPc = "fetching"
    /\ Len(gtkQueue) < MaxQueue
    /\ gtkQueue' = Append(gtkQueue, [kind |-> "status", profile |-> NoProfile,
                                     status |-> status])
    /\ pollPc' = "waiting"
    /\ UNCHANGED << started, settings_load_last_profile, steps, current_speed_profile,
                    profile_selected, should_update_fan_speed, apply_button_enabled,
                    pool, device_steps, statusbar, lastPub, applied_log >>

\* A slip: no catch_exception, the error ends the subscription.
FetchErrorUncaught ==
    /\ pollPc = "fetching"
    /\ pollPc' = "terminated"
    /\ UNCHANGED << started, settings_load_last_profile, steps, current_speed_profile,
                    profile_selected, should_update_fan_speed, apply_button_enabled,
                    pool, gtkQueue, device_steps, statusbar, lastPub,
                    applied_log >>

\* get_status() raises: catch_exception calls, on the worker,
\* _log_exception_return_empty_observable, which sets the status bar text and
\* returns Observable.just(None); the None goes on to the GUI loop.
FetchError ==
    /\ pollPc = "fetching"
    /\ Len(gtkQueue) < MaxQueue
    /\ statusbar' = [text |-> FetchErrorText, thread |-> WORKER]
    /\ gtkQueue' = Append(gtkQueue, [kind |-> "status", profile |-> NoProfile,
                                     status |-> NoStatus])
    /\ pollPc' = "waiting"
    /\ UNCHANGED << started, settings_load_last_profile, steps, current_speed_profile,
                    profile_selected, should_update_fan_speed, apply_button_enabled,
                    pool, device_steps, lastPub, applied_log >>

(* ------------------- GUI loop: scheduled callbacks -------------------- *)

\* on_next=self._update_status
DeliverStatus ==
    /\ gtkQueue # << >>
    /\ Head(gtkQueue).kind = "status"
    /\ gtkQueue' = Tail(gtkQueue)
    /\ lastPub' = IF Head(gtkQueue).status # NoStatus
                  THEN update_status(Head(gtkQueue).status, should_update_fan_speed,
                                     current_speed_profile, steps)
                  ELSE lastPub
    /\ UNCHANGED << started, settings_load_last_profile, steps, current_speed_profile,
                    profile_selected, should_update_fan_speed, apply_button_enabled,
                    pool, pollPc, device_steps, statusbar, applied_log >>

LastTwo(log) == IF Len(log) <= 2 THEN log ELSE Tail(log)

\* on_next=lambda _: self._update_current_speed_profile(profile)
DeliverApplied ==
    /\ gtkQueue # << >>
    /\ Head(gtkQueue).kind = "apply_ok"
    /\ gtkQueue' = Tail(gtkQueue)
    /\ current_speed_profile' =
           update_current_speed_profile(current_speed_profile, Head(gtkQueue).profile)
    /\ statusbar' = [text |-> AppliedText(profile_channel(Head(gtkQueue).profile)),
                     thread |-> GUI]
    /\ applied_log' = [applied_log EXCEPT ![profile_channel(Head(gtkQueue).profile)] =
                           LastTwo(Append(@, Head(gtkQueue).profile))]
    /\ UNCHANGED << started, settings_load_last_profile, steps, profile_selected,
                    should_update_fan_speed, apply_button_enabled, pool,
                    pollPc, device_steps, lastPub >>

\* A slip: the error callback records the profile as applied all the same.
DeliverApplyErrorRecords ==
    /\ gtkQueue # << >>
    /\ Head(gtkQueue).kind = "apply_err"
    /\ gtkQueue' = Tail(gtkQueue)
    /\ current_speed_profile' =
           update_current_speed_profile(current_speed_profile, Head(gtkQueue).profile)
    /\ statusbar' = [text |-> ErrorApplyingText(profile_channel(Head(gtkQueue).profile)),
                     thread |-> GUI]
    /\ UNCHANGED << started, settings_load_last_profile, steps, profile_selected,
                    should_update_fan_speed, apply_button_enabled, pool,
                    pollPc, device_steps, lastPub, applied_log >>

\* on_error=lambda e: (LOG.exception(...), self.view.set_statusbar_text(...))
DeliverApplyError ==
    /\ gtkQueue # << >>
    /\ Head(gtkQueue).kind = "apply_err"
    /\ gtkQueue' = Tail(gtkQueue)
    /\ statusbar' = [text |-> ErrorApplyingText(profile_channel(Head(gtkQueue).profile)),
                     thread |-> GUI]
    /\ UNCHANGED << started, settings_load_last_profile, steps, current_speed_profile,
                    profile_selected, should_update_fan_speed, apply_button_enabled,
                    pool, pollPc, device_steps, lastPub, applied_log >>

(* --------------------------- specifications --------------------------- *)

allvars == << vars, events >>

\* One more event of the environment.
Event ==
    /\ events < MaxEvents
    /\ events' = events + 1

\* A run with user actions: the user's actions and the interval's ticks are
\* counted and bounded.
Next ==
    \/ OnStart /\ UNCHANGED events
    \/ (\E i \in 1..Len(pool) : SendStart(i)) /\ UNCHANGED events
    \/ (\E i \in 1..Len(pool) : SendOk(i)) /\ UNCHANGED events
    \/ (\E i \in 1..Len(pool) : SendError(i)) /\ UNCHANGED events
    \/ PollSubscribe /\ UNCHANGED events
    \/ Tick /\ Event
    \/ (\E status \in Status : FetchOk(status)) /\ UNCHANGED events
    \/ FetchError /\ UNCHANGED events
    \/ DeliverStatus /\ UNCHANGED events
    \/ DeliverApplied /\ UNCHANGED events
    \/ DeliverApplyError /\ UNCHANGED events
    \/ (\E c \in ChannelType, id \in ProfileIds \cup {ADD_NEW_PROFILE_INDEX} :
            SelectSpeedProfile(id, c)) /\ Event
    \/ (\E value \in DutyValues, c \in ChannelType : OnFixedSpeedApply(value, c))
           /\ Event
    \/ (\E c \in ChannelType : OnApplyButtonClicked(c)) /\ Event

Spec == Init /\ [][Next]_allvars

\* Start-up, the pool and the GUI loop's callbacks, the ticks not counted.
NextResolve ==
    \/ OnStart /\ UNCHANGED events
    \/ (\E i \in 1..Len(pool) : SendStart(i)) /\ UNCHANGED events
    \/ (\E i \in 1..Len(pool) : SendOk(i)) /\ UNCHANGED events
    \/ (\E i \in 1..Len(pool) : SendError(i)) /\ UNCHANGED events
    \/ PollSubscribe /\ UNCHANGED events
    \/ Tick /\ UNCHANGED events
    \/ (\E status \in Status : FetchOk(status)) /\ UNCHANGED events
    \/ FetchError /\ UNCHANGED events
    \/ DeliverStatus /\ UNCHANGED events
    \/ DeliverApplied /\ UNCHANGED events
    \/ DeliverApplyError /\ UNCHANGED events

\* Start-up and polling over every sorted step table, without user actions.
SpecResolve == InitResolve /\ [][NextResolve]_allvars

\* The interval's timer fires, a device call returns, and the GUI loop runs its
\* scheduled callbacks.
Fairness ==
    /\ WF_vars(OnStart)
    /\ WF_vars(PollSubscribe)
    /\ WF_vars(Tick)
    /\ WF_vars((\E status \in Status : FetchOk(status)) \/ FetchError)
    /\ WF_vars(DeliverStatus)
    /\ WF_vars(DeliverApplied)
    /\ WF_vars(DeliverApplyError)
    /\ WF_vars(\E i \in 1..Len(pool) : SendStart(i))
    /\ WF_vars(\E i \in 1..Len(pool) : SendOk(i) \/ SendError(i))

\* Start-up and polling, without user actions, under fair scheduling.
SpecPoll == Init /\ [][NextResolve]_allvars /\ Fairness

(* ------------------------------ claims -------------------------------- *)

\* The step in which the GUI loop runs _update_status on a fetched status.
StatusDelivered ==
    /\ gtkQueue # << >>
    /\ Head(gtkQueue).kind = "status"
    /\ Head(gtkQueue).status # NoStatus
    /\ gtkQueue' = Tail(gtkQueue)

\* The steps of a table whose temperature is at most T.
Qualifying(table, T) == { i \in 1..Len(table) : table[i].temperature <= T }

\* The qualifying step of the greatest temperature.
GreatestStep(table, T) ==
    CHOOSE i \in Qualifying(table, T) :
        \A j \in Qualifying(table, T) : table[j].temperature <= table[i].temperature

\* C1: when _update_status runs with the override active and a current FAN
\* profile, the published fan duty is the duty of the step with the greatest
\* temperature <= the measured liquid temperature; when no step qualifies the
\* status is published as the device reported it.
C1_GreatestStepDuty ==
    [][ (StatusDelivered /\ should_update_fan_speed
         /\ get_or_none(current_speed_profile, FAN) # NoProfile)
        => LET table == steps[get_or_none(current_speed_profile, FAN)]
               status == Head(gtkQueue).status
               T == status.liquid_temperature
           IN  IF Qualifying(table, T) = {}
               THEN lastPub' = status
               ELSE lastPub' = [status EXCEPT
                                  !.fan_speed = table[GreatestStep(table, T)].duty] ]_allvars

\* A status was published with the duty of the second of two steps of different
\* duties, both at or below the measured temperature.
C1_Witness ==
    /\ should_update_fan_speed
    /\ get_or_none(current_speed_profile, FAN) = 1
    /\ Len(steps[1]) = 2
    /\ steps[1][1].duty # steps[1][2].duty
    /\ lastPub # NoStatus
    /\ lastPub.liquid_temperature >= steps[1][2].temperature
    /\ lastPub.fan_speed = steps[1][2].duty

\* The step in which a status fetch ends without a status.
FetchFailed ==
    /\ pollPc = "fetching"
    /\ pollPc' # "fetching"
    /\ \A status \in Status :
          gtkQueue' # Append(gtkQueue, [kind |-> "status", profile |-> NoProfile,
                                        status |-> status])

\* The step in which the GUI loop runs _update_status on None.
NoneDelivered ==
    /\ gtkQueue # << >>
    /\ Head(gtkQueue).kind = "status"
    /\ Head(gtkQueue).status = NoStatus
    /\ gtkQueue' = Tail(gtkQueue)

\* C2: a failed status fetch is caught for its tick: the status bar shows the
\* error, nothing is published for that tick, the subscription stays, the next
\* tick fetches again, and a status fetched later is published.
C2_PollerResilience ==
    /\ [][ FetchFailed
           => /\ pollPc' = "waiting"
              /\ statusbar'.text = FetchErrorText
              /\ lastPub' = lastPub
              /\ gtkQueue' = Append(gtkQueue, [kind |-> "status", profile |-> NoProfile,
                                               status |-> NoStatus]) ]_allvars
    /\ [][ NoneDelivered => lastPub' = lastPub ]_allvars
    /\ ((pollPc = "waiting" /\ statusbar.text = FetchErrorText) ~> (pollPc = "fetching"))
    /\ \A status \in Status :
          (gtkQueue # << >> /\ Head(gtkQueue).status = status)
             ~> (lastPub # NoStatus
                 /\ lastPub.liquid_temperature = status.liquid_temperature)

\* Nothing was ever published, a fetch failed and its None has been delivered,
\* and the status of a later fetch is waiting for the GUI loop.
C2_Witness ==
    /\ statusbar.text = FetchErrorText
    /\ lastPub = NoStatus
    /\ Len(gtkQueue) = 1
    /\ Head(gtkQueue).status \in Status
    /\ pollPc = "waiting"

\* The step in which the GUI loop runs the on_error callback of an apply.
ApplyErrorDelivered ==
    /\ gtkQueue # << >>
    /\ Head(gtkQueue).kind = "apply_err"
    /\ gtkQueue' = Tail(gtkQueue)

\* The step in which the GUI loop runs the on_next callback of an apply on the
\* channel.
ApplyOkDelivered(channel) ==
    /\ gtkQueue # << >>
    /\ Head(gtkQueue).kind = "apply_ok"
    /\ profile_channel(Head(gtkQueue).profile) = channel
    /\ gtkQueue' = Tail(gtkQueue)

\* The step in which a send in progress ends with an error.
SendFailed ==
    /\ Len(pool') < Len(pool)
    /\ gtkQueue' # gtkQueue
    /\ gtkQueue'[Len(gtkQueue')].kind = "apply_err"

\* C3: a failed send leaves every CurrentSpeedProfile row as it was, an error
\* naming the channel is reported and the refresh subscription is untouched;
\* the rows of a channel change only in the success callback of an apply on
\* that channel.
C3_FailedApplyKeepsStore ==
    /\ [][ SendFailed
           => /\ current_speed_profile' = current_speed_profile
              /\ pollPc' = pollPc ]_allvars
    /\ [][ ApplyErrorDelivered
           => /\ current_speed_profile' = current_speed_profile
              /\ statusbar' = [text |-> ErrorApplyingText(
                                           profile_channel(Head(gtkQueue).profile)),
                               thread |-> GUI]
              /\ pollPc' = pollPc
              /\ pollPc' # "terminated" ]_allvars
    /\ [][ \A c \in ChannelType :
              SelectRows(current_speed_profile', c) # SelectRows(current_speed_profile, c)
                 => ApplyOkDelivered(c) ]_allvars

\* A FAN apply failed and was reported, the FAN channel has no row, and the
\* refresh subscription is live.
C3_Witness ==
    /\ statusbar.text = ErrorApplyingText(FAN)
    /\ get_or_none(current_speed_profile, FAN) = NoProfile
    /\ profile_selected[FAN] # NoProfile
    /\ pollPc \in {"waiting", "fetching"}

\* C4: the CurrentSpeedProfile table holds at most one row per channel, and once
\* an apply on a channel has completed the row is the profile of the apply that
\* completed last.
C4_OneRowPerChannel ==
    \A c \in ChannelType :
        /\ Len(SelectRows(current_speed_profile, c)) <= 1
        /\ applied_log[c] # << >>
              => get_or_none(current_speed_profile, c) = applied_log[c][Len(applied_log[c])]

\* Two applies of the same FAN profile have completed, and a PUMP apply too.
C4_Witness ==
    /\ Len(applied_log[FAN]) = 2
    /\ applied_log[FAN][1] = applied_log[FAN][2]
    /\ applied_log[PUMP] # << >>
    /\ Len(current_speed_profile) = 2

\* C5: with 'load last profile' on and a FAN row persisted, the send of the
\* restored profile has returned before refresh_status is first called.
C5_RestoreBeforeFirstStatus ==
    (\E i \in 1..Len(pool) : pool[i].origin = "restore" /\ pool[i].channel = FAN)
        => lastPub = NoStatus

C8_SingleStepFixedDuty ==
    [][ (StatusDelivered /\ should_update_fan_speed
         /\ get_or_none(current_speed_profile, FAN) # NoProfile
         /\ profile_single_step(get_or_none(current_speed_profile, FAN)))
        => lastPub'.fan_speed = steps[get_or_none(current_speed_profile, FAN)][1].duty
      ]_allvars

\* C9: the view is called on the GUI loop only.
C9_ViewOnGuiLoop == statusbar.thread = GUI

\* C10: when a status is published with the override active, the step table the
\* duty is computed from is the step data the device last received for FAN.
C10_OverrideUsesDeviceTable ==
    [][ (StatusDelivered /\ should_update_fan_speed
         /\ get_or_none(current_speed_profile, FAN) # NoProfile)
        => steps[get_or_none(current_speed_profile, FAN)] = device_steps[FAN] ]_allvars

====
